---- MODULE Spec2Model ----
\* Scheduled-job subsystem of linagora.esn.cron (lib/index.js): submit, abort,
\* the tick and stop callbacks of a CronJob, and setJobState, running over an
\* asynchronous job registry (./registry) and the cron timer primitive.
EXTENDS Integers, Sequences, FiniteSets, TLC

\* ---------------------------------------------------------------- bounds
MaxJobs == 2        \* valid submissions
MaxTicks == 2       \* ticks fired, all timers together
MaxAborts == 2      \* abort calls
MaxClock == 1       \* readings of new Date() beyond the first

\* ---------------------------------------------------------------- values
NoId == 0
UuidPool == 1 .. MaxJobs
ExtId == MaxJobs + 1                 \* an id stored through the exported registry
AllIds == 1 .. (MaxJobs + 1)
NoHandle == 0

CronTimes == {"", "* * * * * *"}                 \* cronTime argument
JobArgs == {"undefined", "object", "function"}   \* job argument
Descriptions == {"", "heartbeat"}                \* description argument

NoJob == [state |-> "absent"]          \* what registry.get yields for no record
NotYet == [state |-> "notyet"]         \* submit's callback has not been called
Undefined == [state |-> "undefined"]   \* submit's callback got saved = undefined
NoError == "null"

\* registry : the job registry, id -> record
\* jobs     : the closures made by valid submit calls (id, description, timer,
\*            what submit's callback received)
\* trans    : per job, the setJobState calls made by its tick/stop callbacks
\* aborts   : per id, the abort calls whose registry.get has not called back
\* nAborts  : abort calls made so far
\* ret      : what the last step handed to a caller of submit or abort
\* now      : the clock read by new Date()
VARIABLES registry, jobs, trans, aborts, nAborts, ret, now

vars == <<registry, jobs, trans, aborts, nAborts, ret, now>>

NoRet == [api |-> "none"]

\* ------------------------------------------------------ javascript values
Falsy(x) == x \in {"", "undefined"}

IsFunction(x) == x = "function"

\* ------------------------------------------------------ identifier source
Ids(js) == {js[k].id : k \in 1 .. Len(js)}

Min(S) == CHOOSE x \in S : \A y \in S : x <= y

UuidReused(js) == 1

Uuid(js) == Min(UuidPool \ Ids(js))

\* ------------------------------------------------------------- registry
RegistryStoreOk(reg, id) == reg[id] = NoJob

RegistryStore(reg, id, description, handle, t) ==
    [reg EXCEPT ![id] = [id |-> id, description |-> description,
                         state |-> "pending", createdAt |-> t,
                         updatedAt |-> t, job |-> handle]]

RegistryGet(reg, id) == reg[id]

RegistryUpdateOk(reg, job) == reg[job.id] # NoJob

RegistryUpdate(reg, job) == [reg EXCEPT ![job.id] = job]

IoOutcomes == {"ok", "ioerr"}

\* ---------------------------------------------------------- cron timer
\* new CronJob(cronTime, onTick, onComplete, true): started by the constructor
CronJob(k) == [handle |-> k, running |-> TRUE]

\* start() of a running timer does nothing
CronStart(c) == IF c.running THEN c ELSE [c EXCEPT !.running = TRUE]

\* stop() clears the timer; the caller then runs onComplete (OnComplete)
CronStop(c) == [c EXCEPT !.running = FALSE]

\* ------------------------------------------------- state transitions
\* One entry of trans[k] is one call of setJobState made by job k's tick
\* callback (state "running") or stop callback (state "stopped").
NewTransition(state) ==
    [state |-> state, phase |-> "get", job |-> NoJob, cb |-> 0]

Returned(t) == t.phase \in {"ok", "err"}

SetJobStateMutateCreated(job, state, t) ==
    [job EXCEPT !.state = state, !.updatedAt = t, !.createdAt = t]

SetJobStateMutateDateOnly(job, state, t) == [job EXCEPT !.updatedAt = t]

SetJobStateMutate(job, state, t) ==
    [job EXCEPT !.state = state, !.updatedAt = t]

\* the callbacks given to setJobState: log the error, then job() / onStopped()
CallbackNoSwallow(t, err) ==
    IF err # NoError THEN t ELSE [t EXCEPT !.cb = @ + 1]

CallbackTwice(t, err) ==
    IF err # NoError THEN [t EXCEPT !.cb = @ + 2] ELSE [t EXCEPT !.cb = @ + 1]

Callback(t, err) == [t EXCEPT !.cb = @ + 1]

TypeOK ==
    /\ now \in 0 .. MaxClock
    /\ Len(jobs) <= MaxJobs
    /\ nAborts \in 0 .. MaxAborts
    /\ DOMAIN trans = 1 .. MaxJobs

Init ==
    /\ registry = [i \in AllIds |-> NoJob]
    /\ jobs = << >>
    /\ trans = [k \in 1 .. MaxJobs |-> << >>]
    /\ aborts = [i \in AllIds |-> 0]
    /\ nAborts = 0
    /\ ret = NoRet
    /\ now = 0

\* ---------------------------------------------------------------- submit
Validate(cronTime, job) ==
    IF Falsy(cronTime) THEN "Crontime is required"
    ELSE IF Falsy(job) THEN "Job is required"
    ELSE IF ~IsFunction(job) THEN "Job must be a function"
    ELSE NoError

\* return callback(new Error(msg)): in the four-argument form the completion
\* callback sits in onStopped's position and callback is still undefined
\* when validation runs, so the call throws a TypeError
ReportError(msg, hasCallback) == IF hasCallback THEN msg ELSE "TypeError"

Description(description) ==
    IF Falsy(description) THEN "No description" ELSE description

RECURSIVE NumTicks(_, _)
NumTicks(tr, k) ==
    IF k = 0 THEN 0
    ELSE NumTicks(tr, k - 1)
         + Cardinality({i \in 1 .. Len(tr[k]) : tr[k][i].state = "running"})

OnTickWorkFirst(ts) ==
    Append(ts, [NewTransition("running") EXCEPT !.cb = 1])

OnTick(ts) == Append(ts, NewTransition("running"))

OnCompleteDirect(ts) ==
    Append(ts, [NewTransition("stopped") EXCEPT !.phase = "ok", !.cb = 1])

OnComplete(ts) == Append(ts, NewTransition("stopped"))

\* With four arguments (hasCallback = FALSE) a valid call takes onStopped as
\* its callback and a no-op function as onStopped; the stop callback calls
\* onStopped in either form.
Submit(description, cronTime, job, hasCallback) ==
    LET err == Validate(cronTime, job)
        k == Len(jobs) + 1
    IN  IF err # NoError
        THEN /\ ret' = [api |-> "submit", cronTime |-> cronTime, job |-> job,
                        hasCallback |-> hasCallback,
                        result |-> ReportError(err, hasCallback)]
             /\ UNCHANGED <<registry, jobs, trans, aborts, nAborts, now>>
        ELSE /\ Len(jobs) < MaxJobs
             /\ jobs' = Append(jobs,
                   [id |-> Uuid(jobs),
                    description |-> Description(description),
                    cron |-> CronJob(k),
                    store |-> "pending",
                    delivered |-> NotYet])
             /\ ret' = NoRet
             /\ UNCHANGED <<registry, trans, aborts, nAborts, now>>

StoreCallbackFailFast(j, err, saved) ==
    IF err # NoError
    THEN [j EXCEPT !.store = "err",
                   !.cron = CronStop(@),
                   !.delivered = [err |-> err, saved |-> Undefined]]
    ELSE [j EXCEPT !.store = "ok",
                   !.cron = CronStart(@),
                   !.delivered = [err |-> NoError, saved |-> saved]]

StoreCallbackStarted(j, err, saved) ==
    [j EXCEPT !.store = IF err = NoError THEN "ok" ELSE "err",
              !.cron = CronStart(@),
              !.delivered = [err |-> NoError,
                             saved |-> IF saved = Undefined THEN saved
                                       ELSE [saved EXCEPT !.state = "running"]]]

\* the callback of registry.store in submit
StoreCallback(j, err, saved) ==
    [j EXCEPT !.store = IF err = NoError THEN "ok" ELSE "err",
              !.cron = CronStart(@),
              !.delivered = [err |-> NoError, saved |-> saved]]

StoreDone(k) ==
    /\ k \in 1 .. Len(jobs)
    /\ jobs[k].store = "pending"
    /\ \E io \in IoOutcomes :
         LET j == jobs[k]
             ok == io = "ok" /\ RegistryStoreOk(registry, j.id)
             reg == RegistryStore(registry, j.id, j.description, k, now)
         IN  IF ok
             THEN /\ registry' = reg
                  /\ jobs' = [jobs EXCEPT
                                ![k] = StoreCallback(j, NoError, reg[j.id])]
             ELSE /\ registry' = registry
                  /\ jobs' = [jobs EXCEPT
                                ![k] = StoreCallback(j, "err", Undefined)]
    /\ ret' = [api |-> "submitted", k |-> k, job |-> jobs'[k].delivered]
    /\ UNCHANGED <<trans, aborts, nAborts, now>>

\* ------------------------------------------------------------------ ticks
CronTick(k) ==
    /\ k \in 1 .. Len(jobs)
    /\ jobs[k].cron.running
    /\ NumTicks(trans, MaxJobs) < MaxTicks
    /\ trans' = [trans EXCEPT ![k] = OnTick(@)]
    /\ ret' = NoRet
    /\ UNCHANGED <<registry, jobs, aborts, nAborts, now>>

\* ------------------------------------------------------------ setJobState
\* the callback of registry.get in setJobState
SetJobStateGet(k, i) ==
    /\ k \in 1 .. Len(jobs)
    /\ i \in 1 .. Len(trans[k])
    /\ trans[k][i].phase = "get"
    /\ \E io \in IoOutcomes :
         LET t == trans[k][i]
             job == RegistryGet(registry, jobs[k].id)
         IN  trans' = [trans EXCEPT ![k][i] =
               IF io # "ok"
               THEN Callback([t EXCEPT !.phase = "err"], io)
               ELSE IF job = NoJob
               THEN Callback([t EXCEPT !.phase = "err"], "No such job")
               ELSE [t EXCEPT !.phase = "update",
                              !.job = SetJobStateMutate(job, t.state, now)]]
    /\ ret' = NoRet
    /\ UNCHANGED <<registry, jobs, aborts, nAborts, now>>

\* registry.update completes and calls setJobState's callback
SetJobStateUpdate(k, i) ==
    /\ k \in 1 .. Len(jobs)
    /\ i \in 1 .. Len(trans[k])
    /\ trans[k][i].phase = "update"
    /\ \E io \in IoOutcomes :
         LET t == trans[k][i]
             ok == io = "ok" /\ RegistryUpdateOk(registry, t.job)
         IN  IF ok
             THEN /\ registry' = RegistryUpdate(registry, t.job)
                  /\ trans' = [trans EXCEPT ![k][i] =
                        Callback([t EXCEPT !.phase = "ok", !.job = NoJob],
                                 NoError)]
             ELSE /\ registry' = registry
                  /\ trans' = [trans EXCEPT ![k][i] =
                        Callback([t EXCEPT !.phase = "err", !.job = NoJob],
                                 "err")]
    /\ ret' = NoRet
    /\ UNCHANGED <<jobs, aborts, nAborts, now>>

\* ------------------------------------------------------------------ abort
Abort(id) ==
    /\ nAborts < MaxAborts
    /\ nAborts' = nAborts + 1
    /\ aborts' = [aborts EXCEPT ![id] = @ + 1]
    /\ ret' = NoRet
    /\ UNCHANGED <<registry, jobs, trans, now>>

AbortResultStopFirst(io, job) ==
    IF job # NoJob /\ job.job # NoHandle THEN "ok"
    ELSE IF io # "ok" THEN io
    ELSE IF job = NoJob THEN "No such job"
    ELSE "No job to stop"

AbortResult(io, job) ==
    IF io # "ok" THEN io
    ELSE IF job = NoJob THEN "No such job"
    ELSE IF job.job = NoHandle THEN "No job to stop"
    ELSE "ok"

\* the callback of registry.get in abort
AbortGet(id) ==
    /\ aborts[id] > 0
    /\ aborts' = [aborts EXCEPT ![id] = @ - 1]
    /\ \E io \in IoOutcomes :
         LET job == RegistryGet(registry, id)
             res == AbortResult(io, job)
         IN  /\ ret' = [api |-> "abort", id |-> id, io |-> io, result |-> res]
             /\ IF res = "ok"
                THEN /\ jobs' = [jobs EXCEPT ![job.job].cron = CronStop(@)]
                     /\ trans' = [trans EXCEPT ![job.job] = OnComplete(@)]
                ELSE UNCHANGED <<jobs, trans>>
    /\ UNCHANGED <<registry, nAborts, now>>

\* ------------------------------------------------------------ environment
\* a record without a live handle, stored through the exported registry
RegistryStoreNoHandle ==
    /\ RegistryStoreOk(registry, ExtId)
    /\ registry' = RegistryStore(registry, ExtId, "external", NoHandle, now)
    /\ ret' = NoRet
    /\ UNCHANGED <<jobs, trans, aborts, nAborts, now>>

ClockAdvance ==
    /\ now < MaxClock
    /\ now' = now + 1
    /\ ret' = NoRet
    /\ UNCHANGED <<registry, jobs, trans, aborts, nAborts>>

\* callers that pass a schedule and a work function
Next ==
    \/ \E d \in Descriptions, cb \in BOOLEAN :
         Submit(d, "* * * * * *", "function", cb)
    \/ \E k \in 1 .. MaxJobs : StoreDone(k)
    \/ \E k \in 1 .. MaxJobs : CronTick(k)
    \/ \E k \in 1 .. MaxJobs, i \in 1 .. (MaxTicks + MaxAborts) :
         SetJobStateGet(k, i)
    \/ \E k \in 1 .. MaxJobs, i \in 1 .. (MaxTicks + MaxAborts) :
         SetJobStateUpdate(k, i)
    \/ \E id \in AllIds : Abort(id)
    \/ \E id \in AllIds : AbortGet(id)
    \/ RegistryStoreNoHandle
    \/ ClockAdvance

Spec == Init /\ [][Next]_vars

\* callers that pass any arguments to submit (valid or not); the clock and the
\* exported registry are left alone here
NextAnyArgs ==
    \/ \E d \in Descriptions, c \in CronTimes, j \in JobArgs, cb \in BOOLEAN :
         Submit(d, c, j, cb)
    \/ \E k \in 1 .. MaxJobs : StoreDone(k)
    \/ \E k \in 1 .. MaxJobs : CronTick(k)
    \/ \E k \in 1 .. MaxJobs, i \in 1 .. (MaxTicks + MaxAborts) :
         SetJobStateGet(k, i)
    \/ \E k \in 1 .. MaxJobs, i \in 1 .. (MaxTicks + MaxAborts) :
         SetJobStateUpdate(k, i)
    \/ \E id \in AllIds : Abort(id)
    \/ \E id \in AllIds : AbortGet(id)

SpecAnyArgs == Init /\ [][NextAnyArgs]_vars
\* ================================================================ claims
Jobs == 1 .. Len(jobs)

Trans(k) == 1 .. Len(trans[k])

Record(k) == registry[jobs[k].id]

\* C1: workFn is invoked for a tick only after that tick's setJobState
\* (the running write) has been attempted and has called back.
C1_RunningWriteReturnsBeforeWorkFn ==
    \A k \in Jobs : \A i \in Trans(k) :
        (trans[k][i].state = "running" /\ trans[k][i].cb > 0)
            => Returned(trans[k][i])

C1_Witness ==
    \E k \in Jobs : \E i \in Trans(k) :
        /\ trans[k][i].state = "running"
        /\ trans[k][i].phase = "ok"
        /\ trans[k][i].cb = 1
        /\ Record(k).state = "running"

\* C2: each stop of a timer invokes onStopped exactly once, and not before
\* the stopped write of that stop has been attempted and has called back.
C2_OnStoppedOncePerStopAfterWrite ==
    \A k \in Jobs : \A i \in Trans(k) :
        trans[k][i].state = "stopped"
            => trans[k][i].cb = (IF Returned(trans[k][i]) THEN 1 ELSE 0)

C2_Witness ==
    \E k \in Jobs : \E i, j \in Trans(k) :
        /\ i # j
        /\ trans[k][i].state = "stopped" /\ trans[k][j].state = "stopped"
        /\ trans[k][i].phase = "ok" /\ trans[k][i].cb = 1
        /\ trans[k][j].phase = "err" /\ trans[k][j].cb = 1

\* C3: when the lookup or the update of a transition fails, the step that
\* receives the failure still invokes workFn (tick) or onStopped (stop), and
\* hands nothing to a caller of submit or abort.
C3_TransitionFailureSwallowed ==
    [][\A k \in Jobs : \A i \in Trans(k) :
          (~Returned(trans[k][i]) /\ trans'[k][i].phase = "err")
              => /\ trans'[k][i].cb = trans[k][i].cb + 1
                 /\ ret' = NoRet]_vars

C3_Witness ==
    \E k \in Jobs : \E i, j \in Trans(k) :
        /\ trans[k][i].state = "running" /\ trans[k][j].state = "stopped"
        /\ trans[k][i].phase = "err" /\ trans[k][i].cb = 1
        /\ trans[k][j].phase = "err" /\ trans[k][j].cb = 1
        /\ ret = NoRet

\* C4: a failed validation reports the error of the first failing check
\* (schedule, then workFn presence, then workFn callability) and creates no
\* identifier, no timer and no registry change.
C4_ExpectedError(cronTime, job) ==
    IF cronTime = "" THEN "Crontime is required"
    ELSE IF job = "undefined" THEN "Job is required"
    ELSE "Job must be a function"

C4_ValidationOrderNoEffect ==
    [][ret'.api = "submit"
          => /\ ret'.result = C4_ExpectedError(ret'.cronTime, ret'.job)
             /\ UNCHANGED <<registry, jobs, trans>>]_vars

\* C5: abort reports job-not-found for an id without a record, no-active-handle
\* for a record without a handle, and a lookup failure unchanged; in these
\* cases no timer is stopped and no record is modified.
C5_AbortFailures ==
    [][ret'.api = "abort"
          => LET job == registry[ret'.id]
             IN  /\ ret'.io # "ok" => ret'.result = ret'.io
                 /\ (ret'.io = "ok" /\ job = NoJob)
                        => ret'.result = "No such job"
                 /\ (ret'.io = "ok" /\ job # NoJob /\ job.job = NoHandle)
                        => ret'.result = "No job to stop"
                 /\ ret'.result # "ok"
                        => UNCHANGED <<registry, jobs, trans>>]_vars

C5_Witness ==
    /\ ret.api = "abort"
    /\ ret.result = "No job to stop"
    /\ \E k \in Jobs : jobs[k].cron.running /\ Record(k) # NoJob

\* C6: with registry operations of the job all succeeding, once the stop
\* transition has completed the record's state is stopped, and stays stopped.
StopCompleted(k) ==
    /\ \E i \in Trans(k) : trans[k][i].state = "stopped"
    /\ \A i \in Trans(k) :
          trans[k][i].state = "stopped" => trans[k][i].cb > 0

WritesSucceeded(k) ==
    /\ jobs[k].store = "ok"
    /\ \A i \in Trans(k) : trans[k][i].phase # "err"

C6_StoppedAfterStopCompletes ==
    \A k \in Jobs :
        (StopCompleted(k) /\ WritesSucceeded(k))
            => Record(k).state = "stopped"

\* C7: once onStopped has been invoked after an abort, workFn of that job is
\* not invoked again.
C7_NoWorkFnAfterOnStopped ==
    [][\A k \in Jobs : \A i \in Trans(k) :
          (StopCompleted(k) /\ trans[k][i].state = "running")
              => trans'[k][i].cb = trans[k][i].cb]_vars

\* C8: a record whose state is stopped never changes state again (so it
\* enters stopped at most once).
C8_StoppedIsTerminal ==
    [][\A id \in AllIds :
          (registry[id] # NoJob /\ registry[id].state = "stopped")
              => registry'[id].state = "stopped"]_vars

\* C9: no tick of a job fires before the callback of its registry.store ran.
C9_NoTickBeforeStoreCallback ==
    \A k \in Jobs : jobs[k].store = "pending" => trans[k] = << >>

\* C10: the Job handed to submit's caller has a non-empty id that no other
\* delivered Job has, state pending and createdAt = updatedAt.
Saved(k) == jobs[k].delivered.saved

HasSaved(k) == jobs[k].delivered # NotYet /\ Saved(k) # Undefined

C11_StoreFailureStillRuns ==
    \A k \in Jobs :
        jobs[k].store = "err"
            => /\ jobs[k].cron.running
               /\ jobs[k].delivered.err = NoError
               /\ \A i \in Trans(k) :
                     Returned(trans[k][i]) => trans[k][i].cb = 1

C11_Witness ==
    \E k \in Jobs : \E i, j \in Trans(k) :
        /\ jobs[k].store = "err"
        /\ jobs[k].cron.running
        /\ trans[k][i].state = "running" /\ trans[k][i].cb = 1
        /\ trans[k][j].state = "running" /\ trans[k][j].phase = "get"

\* C12: a completed submit handed its caller either an error or a Job that is
\* in the registry under its id.
C12_ErrorOrStoredJob ==
    \A k \in Jobs :
        jobs[k].delivered # NotYet
            => \/ jobs[k].delivered.err # NoError
               \/ /\ Saved(k) # Undefined
                  /\ registry[Saved(k).id] # NoJob

\* C13: once workFn has begun for a tick of a job and no stop was signalled,
\* the job's record exists, with state running and updatedAt > createdAt.
WorkFnBegun(k) ==
    \E i \in Trans(k) : trans[k][i].state = "running" /\ trans[k][i].cb > 0

StopSignalled(k) == \E i \in Trans(k) : trans[k][i].state = "stopped"

RunningWritten(k) ==
    \E i \in Trans(k) : trans[k][i].state = "running" /\ trans[k][i].phase = "ok"

ReadNotWritten(k) == {i \in Trans(k) : trans[k][i].phase = "update"}

C14_TransitionsDoNotInterleave ==
    \A k \in Jobs : Cardinality(ReadNotWritten(k)) <= 1

\* C15: the stored updatedAt of a record never decreases and is never earlier
\* than its createdAt.
C15_UpdatedAtMonotone ==
    [][\A id \in AllIds :
          registry[id] # NoJob
              => /\ registry'[id].updatedAt >= registry[id].updatedAt
                 /\ registry'[id].updatedAt >= registry'[id].createdAt]_vars

\* C16: a submit that fails validation hands the validation error to the
\* caller's callback, with onStopped supplied and with onStopped omitted.
ValidationErrors ==
    {"Crontime is required", "Job is required", "Job must be a function"}

C16_ValidationErrorDelivered ==
    ret.api = "submit" => ret.result \in ValidationErrors

\* C17: the step in which abort succeeds stops the timer and leaves the
\* registry alone, the stopped transition it started has neither written nor
\* called onStopped yet; a record becomes stopped only in a step where the
\* update of a stop callback's setJobState completes.
StoppedWriteCompletes(k) ==
    \E i \in Trans(k) :
        /\ trans[k][i].state = "stopped"
        /\ trans[k][i].phase = "update"
        /\ trans'[k][i].phase = "ok"

C17_AbortOnlySignalsStop ==
    [][/\ (ret'.api = "abort" /\ ret'.result = "ok")
            => LET k == registry[ret'.id].job
               IN  /\ registry' = registry
                   /\ ~jobs'[k].cron.running
                   /\ Len(trans'[k]) = Len(trans[k]) + 1
                   /\ trans'[k][Len(trans'[k])] = NewTransition("stopped")
       /\ \A k \in Jobs :
            (Record(k) # NoJob /\ Record(k).state # "stopped"
                /\ registry'[jobs[k].id].state = "stopped")
                => StoppedWriteCompletes(k)]_vars

C17_Witness ==
    /\ ret.api = "abort"
    /\ ret.result = "ok"
    /\ registry[ret.id].state = "running"
    /\ \E k \in Jobs :
         /\ jobs[k].id = ret.id
         /\ ~jobs[k].cron.running
         /\ trans[k][Len(trans[k])] = NewTransition("stopped")

\* C18: record states are pending, running or stopped; a step never removes
\* a record and never changes its id, description, createdAt or handle.
C18_RecordFrame ==
    [][\A id \in AllIds :
          /\ registry'[id] # NoJob
                => registry'[id].state \in {"pending", "running", "stopped"}
          /\ registry[id] # NoJob
                => /\ registry'[id] # NoJob
                   /\ registry'[id].id = registry[id].id
                   /\ registry'[id].description = registry[id].description
                   /\ registry'[id].createdAt = registry[id].createdAt
                   /\ registry'[id].job = registry[id].job]_vars

C18_Witness ==
    \E k \in Jobs :
        /\ Record(k) # NoJob
        /\ Record(k).state = "stopped"
        /\ Record(k).description = "heartbeat"
        /\ Record(k).updatedAt > Record(k).createdAt
        /\ Record(k).job = k
        /\ \E i \in Trans(k) :
              trans[k][i].state = "running" /\ trans[k][i].phase = "ok"

\* C19: a step that fires a tick, completes a transition or stops the timer
\* of one job leaves every other job's record, timer and callbacks alone.
Touched(k) ==
    \/ trans'[k] # trans[k]
    \/ jobs'[k].cron # jobs[k].cron

RecordChanged(id) == registry'[id] # registry[id]

C19_JobsIsolated ==
    [][\A k \in Jobs :
          Touched(k)
              => /\ \A k2 \in Jobs \ {k} :
                       ~Touched(k2) /\ ~RecordChanged(jobs[k2].id)
                 /\ \A id \in AllIds \ {jobs[k].id} : ~RecordChanged(id)]_vars

C19_Witness ==
    \E k, k2 \in Jobs :
        /\ k # k2
        /\ Record(k) # NoJob /\ Record(k).state = "stopped"
        /\ ~jobs[k].cron.running
        /\ \E i \in Trans(k) : trans[k][i].state = "running" /\ trans[k][i].cb = 1
        /\ \E i \in Trans(k) : trans[k][i].state = "stopped" /\ trans[k][i].cb = 1
        /\ Record(k2) # NoJob /\ Record(k2).state = "pending"
        /\ Record(k2).updatedAt = Record(k2).createdAt
        /\ jobs[k2].cron.running
        /\ trans[k2] = << >>
====
